---- MODULE Spec2Model ----
(***************************************************************************)
(* Model of src/metadata.cc: the asynchronous metadata task of sharp.      *)
(*                                                                         *)
(* metadata(options, callback) runs on the event-loop thread: it builds    *)
(* the baton and the input descriptor, constructs a MetadataWorker (which  *)
(* saves the input Buffers to its persistent handle), queues the worker    *)
(* and then increments sharp::counterQueue.  Execute runs on a thread of   *)
(* the worker pool; HandleOKCallback runs back on the event-loop thread.   *)
(***************************************************************************)
EXTENDS Integers, Sequences, FiniteSets, TLC

\* ---------------------------------------------------------------- bounds
MaxTasks == 2            \* calls of metadata() in one behaviour
MaxBuffers == 1          \* entries CreateInputDescriptor puts in buffersToPersist
MaxInitialCounter == 0   \* the most sharp::counterQueue holds before the first call

Tasks == 1..MaxTasks

\* ------------------------------------------------------- decode engine
\* sharp::ImageType as far as this file uses it: UNKNOWN and known types.
ImageTypes == {"UNKNOWN", "JPEG", "PNG"}

\* sharp::ImageTypeId: the identifier of a known image type.
ImageTypeId(imageType) ==
  CASE imageType = "JPEG" -> "jpeg"
    [] imageType = "PNG" -> "png"
    [] OTHER -> "unknown"

\* vips_enum_nick(VIPS_TYPE_INTERPRETATION, i): the nickname of a colourspace.
vips_enum_nick(interpretation) ==
  CASE interpretation = "VIPS_INTERPRETATION_sRGB" -> "srgb"
    [] interpretation = "VIPS_INTERPRETATION_B_W" -> "b-w"
    [] OTHER -> "error"

\* A metadata item of an image that is either a blob of bytes or not there.
NoBlob == [present |-> FALSE, data |-> <<>>]
Blob(bytes) == [present |-> TRUE, data |-> bytes]

\* The header of an opened image, as its accessors report it.
VImage(w, h, interp, bands, hasDens, dens, prof, alpha, orient, exif, icc) ==
  [width |-> w, height |-> h, interpretation |-> interp, bands |-> bands,
   hasDensity |-> hasDens, density |-> dens, hasProfile |-> prof,
   hasAlpha |-> alpha, orientation |-> orient, exif |-> exif, icc |-> icc]

\* The image a default-constructed vips::VImage stands for.
NullImage ==
  VImage(0, 0, "VIPS_INTERPRETATION_ERROR", 0, FALSE, 0, FALSE, FALSE, 0, NoBlob, NoBlob)

\* The headers the decode engine reports in this model: each optional item
\* is present in some and absent in others, and a blob may have length 0.
Images ==
  { VImage(2, 3, "VIPS_INTERPRETATION_sRGB", 3, FALSE, 0, FALSE, FALSE, 0, NoBlob, NoBlob),
    VImage(2, 3, "VIPS_INTERPRETATION_sRGB", 4, TRUE, 72, FALSE, TRUE, 6, NoBlob, NoBlob),
    VImage(4, 1, "VIPS_INTERPRETATION_B_W", 1, TRUE, 0, FALSE, FALSE, 0, Blob(<<7, 8>>), NoBlob),
    VImage(4, 1, "VIPS_INTERPRETATION_B_W", 1, FALSE, 72, TRUE, FALSE, 0, NoBlob, Blob(<<9>>)),
    VImage(1, 1, "VIPS_INTERPRETATION_sRGB", 3, FALSE, 0, TRUE, FALSE, 1, Blob(<<>>), Blob(<<>>)) }

\* The messages a vips::VError of the header-open carries.
Messages == {"Input file is missing", "Input buffer has corrupt header"}

\* OpenInput(baton->input, VIPS_ACCESS_SEQUENTIAL): it throws a VError, or
\* returns an image and its type; the type may be UNKNOWN.
OpenOutcomes ==
  [kind : {"throw"}, what : Messages, imageType : {"UNKNOWN"}, image : {NullImage}]
  \cup [kind : {"ok"}, what : {""}, imageType : {"UNKNOWN"}, image : {NullImage}]
  \cup [kind : {"ok"}, what : {""}, imageType : {"JPEG"}, image : Images]
  \cup [kind : {"ok"}, what : {""}, imageType : {"PNG"},
        image : {i \in Images : i.hasAlpha}]

\* ---------------------------------------------------------------- baton
\* new MetadataBaton: the baton before Execute has written to it.
NewBaton ==
  [format |-> "", width |-> 0, height |-> 0, space |-> "", channels |-> 0,
   density |-> 0, hasProfile |-> FALSE, hasAlpha |-> FALSE, orientation |-> 0,
   exif |-> <<>>, exifLength |-> 0, icc |-> <<>>, iccLength |-> 0, err |-> ""]

\* No task, in the variable that holds the task metadata() is running for.
NoTask == 0

VARIABLES
  counterQueue,   \* sharp::counterQueue
  counterBefore,  \* the value of counterQueue before the first submission
  submitting,     \* the task metadata() has queued and not yet counted, or NoTask
  pc,             \* per task: where its worker is
  buffersToPersist, \* per task: the number of Buffers handed to the worker
  persistent,     \* per task: the indexes held by the worker's persistent handle
  baton,          \* per task: its MetadataBaton
  opened,         \* per task: what OpenInput did for it (sequence of 0 or 1)
  calls,          \* per task: the argument pairs its callback was called with
  cleanup,        \* per task: the clean-up calls Execute made, in order
  unpinned,       \* per task: the indexes HandleOKCallback's loop went through
  heap            \* per task: the g_malloc'ed blocks of its exif and icc blobs

vars == <<counterQueue, counterBefore, submitting, pc, buffersToPersist,
          persistent, baton, opened, calls, cleanup, unpinned, heap>>

\* The variables of the worker steps that are not per-task results.
taskLog == <<cleanup, unpinned, heap>>


\* ------------------------------------------------------------ operations
\* g_atomic_int_inc(&sharp::counterQueue)
g_atomic_int_inc(counter) == counter + 1

\* A decrement that stops at zero.
g_atomic_int_dec_floor(counter) == IF counter > 0 THEN counter - 1 ELSE counter

\* g_atomic_int_dec_and_test(&sharp::counterQueue); the result is not used.
g_atomic_int_dec_and_test(counter) == counter - 1

\* A constructor that saves no Buffer.
SaveNothing(n) == {}

\* The MetadataWorker constructor: SaveToPersistent(index, buffer) for each
\* of the n entries of buffersToPersist, index counting from 0.
SaveToPersistent(n) == {index \in 0..(n - 1) : TRUE}

\* One baton used by every worker.
BatonShared(task) == 1

\* The baton a worker holds: the one metadata() allocated for its task.
BatonOf(task) == task

\* Execute, the try block: the image type after OpenInput returned or threw.
OpenedType(outcome) ==
  IF outcome.kind = "ok" THEN outcome.imageType ELSE "UNKNOWN"

\* A catch block that drops the message.
CatchAndDrop(b, outcome) == b

\* Execute, the catch block: (baton->err).append(err.what()).
CatchVError(b, outcome) ==
  IF outcome.kind = "throw" THEN [b EXCEPT !.err = b.err \o outcome.what] ELSE b

\* A header read that asks for the density whether or not there is one.
ReadHeaderDensityAlways(b, imageType, image) ==
  LET b1 == [b EXCEPT !.format = ImageTypeId(imageType),
                      !.width = image.width,
                      !.height = image.height,
                      !.space = vips_enum_nick(image.interpretation),
                      !.channels = image.bands,
                      !.density = image.density,
                      !.hasProfile = image.hasProfile,
                      !.hasAlpha = image.hasAlpha,
                      !.orientation = image.orientation]
      b4 == IF image.exif.present
            THEN [b1 EXCEPT !.exif = image.exif.data,
                            !.exifLength = Len(image.exif.data)]
            ELSE b1
      b5 == IF image.icc.present
            THEN [b4 EXCEPT !.icc = image.icc.data,
                            !.iccLength = Len(image.icc.data)]
            ELSE b4
  IN b5

\* A header read that records the length of a blob as one byte short.
ReadHeaderShortBlob(b, imageType, image) ==
  LET b1 == [b EXCEPT !.format = ImageTypeId(imageType),
                      !.width = image.width,
                      !.height = image.height,
                      !.space = vips_enum_nick(image.interpretation),
                      !.channels = image.bands,
                      !.hasProfile = image.hasProfile,
                      !.hasAlpha = image.hasAlpha,
                      !.orientation = image.orientation]
      b2 == IF image.hasDensity THEN [b1 EXCEPT !.density = image.density] ELSE b1
      b4 == IF image.exif.present /\ Len(image.exif.data) > 0
            THEN [b2 EXCEPT !.exif = image.exif.data,
                            !.exifLength = Len(image.exif.data) - 1]
            ELSE b2
      b5 == IF image.icc.present /\ Len(image.icc.data) > 0
            THEN [b4 EXCEPT !.icc = image.icc.data,
                            !.iccLength = Len(image.icc.data) - 1]
            ELSE b4
  IN b5

\* Execute, the body of if (imageType != UNKNOWN): the header is read into
\* the baton, and the EXIF and ICC blobs are copied when they are blobs.
ReadHeader(b, imageType, image) ==
  LET b1 == [b EXCEPT !.format = ImageTypeId(imageType),
                      !.width = image.width,
                      !.height = image.height,
                      !.space = vips_enum_nick(image.interpretation),
                      !.channels = image.bands]
      b2 == IF image.hasDensity THEN [b1 EXCEPT !.density = image.density] ELSE b1
      b3 == [b2 EXCEPT !.hasProfile = image.hasProfile,
                       !.hasAlpha = image.hasAlpha,
                       !.orientation = image.orientation]
      b4 == IF image.exif.present
            THEN [b3 EXCEPT !.exif = image.exif.data,
                            !.exifLength = Len(image.exif.data)]
            ELSE b3
      b5 == IF image.icc.present
            THEN [b4 EXCEPT !.icc = image.icc.data,
                            !.iccLength = Len(image.icc.data)]
            ELSE b4
  IN b5

\* Execute from OpenInput to the end of the if: the baton it leaves.
ExecuteBaton(b, outcome) ==
  LET imageType == OpenedType(outcome)
      b1 == CatchVError(b, outcome)
  IN IF imageType # "UNKNOWN" THEN ReadHeader(b1, imageType, outcome.image) ELSE b1

\* The blobs Execute copies, by the baton field that points to the copy.
BlobFields == {"exif", "icc"}

\* A block of memory: whether it was allocated, who holds its pointer, and
\* how many times it was freed.
NoBlock == [allocated |-> FALSE, owners |-> {}, frees |-> 0]
BatonBlock == [allocated |-> TRUE, owners |-> {"baton"}, frees |-> 0]

\* A malloc that returns a block for size 0 too.
malloc_never_null(size) == "block"

\* g_malloc(size): NULL for size 0, a new block otherwise.
g_malloc(size) == IF size > 0 THEN "block" ELSE "NULL"

\* Execute, the EXIF and ICC parts: the blocks it allocates, held by the
\* baton. Nothing is allocated when the type is UNKNOWN or the blob absent.
ExecuteHeap(outcome) ==
  [f \in BlobFields |->
     IF /\ OpenedType(outcome) # "UNKNOWN"
        /\ outcome.image[f].present
        /\ g_malloc(Len(outcome.image[f].data)) # "NULL"
     THEN BatonBlock
     ELSE NoBlock]

\* Execute, its last two statements.
CleanUp == <<"vips_error_clear", "vips_thread_shutdown">>

\* A loop that counts the indexes from 1.
GetFromPersistentFromOne(n) == [i \in 1..n |-> i]

\* HandleOKCallback, the loop over buffersToPersist: GetFromPersistent(index)
\* for index 0, 1, ... in the order of the vector. It reads the handle.
GetFromPersistent(n) == [i \in 1..n |-> i - 1]

\* JavaScript values handed to the callback.
Null == [type |-> "null"]
Error(message) == [type |-> "Error", message |-> message]
Buffer(data, length) == [type |-> "Buffer", data |-> SubSeq(data, 1, length)]
Object(props) == [type |-> "Object", props |-> props]
EmptyProps == [k \in {} |-> 0]

\* Nan::Set(info, key, value)
Set(props, key, value) ==
  [k \in DOMAIN props \cup {key} |-> IF k = key THEN value ELSE props[k]]

\* A metadata object whose orientation is set whatever its value.
InfoOrientationAlways(b) ==
  LET i1 == Set(EmptyProps, "format", b.format)
      i2 == Set(i1, "width", b.width)
      i3 == Set(i2, "height", b.height)
      i4 == Set(i3, "space", b.space)
      i5 == Set(i4, "channels", b.channels)
      i6 == IF b.density > 0 THEN Set(i5, "density", b.density) ELSE i5
      i7 == Set(i6, "hasProfile", b.hasProfile)
      i8 == Set(i7, "hasAlpha", b.hasAlpha)
      i9 == Set(i8, "orientation", b.orientation)
      i10 == IF b.exifLength > 0
             THEN Set(i9, "exif", Buffer(b.exif, b.exifLength)) ELSE i9
      i11 == IF b.iccLength > 0
             THEN Set(i10, "icc", Buffer(b.icc, b.iccLength)) ELSE i10
  IN Object(i11)

\* HandleOKCallback, the else branch: the metadata object.
Info(b) ==
  LET i1 == Set(EmptyProps, "format", b.format)
      i2 == Set(i1, "width", b.width)
      i3 == Set(i2, "height", b.height)
      i4 == Set(i3, "space", b.space)
      i5 == Set(i4, "channels", b.channels)
      i6 == IF b.density > 0 THEN Set(i5, "density", b.density) ELSE i5
      i7 == Set(i6, "hasProfile", b.hasProfile)
      i8 == Set(i7, "hasAlpha", b.hasAlpha)
      i9 == IF b.orientation > 0 THEN Set(i8, "orientation", b.orientation) ELSE i8
      i10 == IF b.exifLength > 0
             THEN Set(i9, "exif", Buffer(b.exif, b.exifLength)) ELSE i9
      i11 == IF b.iccLength > 0
             THEN Set(i10, "icc", Buffer(b.icc, b.iccLength)) ELSE i10
  IN Object(i11)

\* An argv whose result is set on the error path too.
ArgvResultAlways(b) ==
  IF b.err # ""
  THEN [error |-> Error(b.err), result |-> Info(b)]
  ELSE [error |-> Null, result |-> Info(b)]

\* HandleOKCallback: argv, both null at first, then the error or the object.
Argv(b) ==
  IF b.err # ""
  THEN [error |-> Error(b.err), result |-> Null]
  ELSE [error |-> Null, result |-> Info(b)]

\* A HandleOKCallback that returns on the error path without the call.
HandleOKCallbackSilentError(b, held) ==
  IF b.err # ""
  THEN << >>
  ELSE << [error |-> Argv(b).error, result |-> Argv(b).result,
           held |-> held, batonDeleted |-> TRUE] >>

\* HandleOKCallback: the calls of the callback it makes, in order. Each is
\* recorded with what the worker still holds when the callback runs: the
\* persistent handle is reset only when the worker is destroyed, after
\* HandleOKCallback has returned, and the baton was deleted before the call.
HandleOKCallback(b, held) ==
  << [error |-> Argv(b).error, result |-> Argv(b).result,
      held |-> held, batonDeleted |-> TRUE] >>

\* HandleOKCallback and the blocks: Nan::NewBuffer(baton->exif, ...) makes
\* the Buffer of the field the holder of the block, with sharp::FreeCallback
\* to free it; delete baton ends the baton's hold and frees no block.
HandleOKCallbackHeap(h, result) ==
  [f \in BlobFields |->
     IF h[f].allocated
     THEN [h[f] EXCEPT !.owners =
             (@ \ {"baton"})
             \cup (IF result # Null /\ f \in DOMAIN result.props THEN {"buffer"} ELSE {})]
     ELSE h[f]]

\* sharp::FreeCallback, run when the Buffer is reclaimed: the block is freed.
FreeCallback(block) == [block EXCEPT !.owners = {}, !.frees = @ + 1]

\* ---------------------------------------------------------------- state
Init ==
  /\ counterQueue \in 0..MaxInitialCounter
  /\ counterBefore = counterQueue
  /\ submitting = NoTask
  /\ pc = [t \in Tasks |-> "none"]
  /\ buffersToPersist = [t \in Tasks |-> 0]
  /\ persistent = [t \in Tasks |-> {}]
  /\ baton = [t \in Tasks |-> NewBaton]
  /\ opened = [t \in Tasks |-> <<>>]
  /\ calls = [t \in Tasks |-> <<>>]
  /\ cleanup = [t \in Tasks |-> <<>>]
  /\ unpinned = [t \in Tasks |-> <<>>]
  /\ heap = [t \in Tasks |-> [f \in BlobFields |-> NoBlock]]

\* A metadata() that runs the worker in place instead of queueing it.
MetadataQueueSync(t, n) ==
  /\ submitting = NoTask
  /\ pc[t] = "none"
  /\ \A u \in Tasks : u < t => pc[u] # "none"
  /\ \E outcome \in OpenOutcomes :
       /\ baton' = [baton EXCEPT ![BatonOf(t)] = ExecuteBaton(NewBaton, outcome)]
       /\ opened' = [opened EXCEPT ![t] = <<outcome>>]
       /\ calls' = [calls EXCEPT
            ![t] = HandleOKCallback(ExecuteBaton(NewBaton, outcome), SaveToPersistent(n))]
  /\ buffersToPersist' = [buffersToPersist EXCEPT ![t] = n]
  /\ persistent' = [persistent EXCEPT ![t] = {}]
  /\ pc' = [pc EXCEPT ![t] = "completed"]
  /\ counterQueue' = g_atomic_int_dec_and_test(counterQueue)
  /\ submitting' = t
  /\ UNCHANGED <<counterBefore, taskLog>>

\* metadata(options, callback) up to Nan::AsyncQueueWorker: the baton and
\* the input descriptor are made, the worker is constructed and queued.
\* Tasks are numbered in the order of the calls.
\* The event-loop thread is inside metadata() until the counter is counted.
MetadataQueue(t, n) ==
  /\ submitting = NoTask
  /\ pc[t] = "none"
  /\ \A u \in Tasks : u < t => pc[u] # "none"
  /\ baton' = [baton EXCEPT ![BatonOf(t)] = NewBaton]
  /\ buffersToPersist' = [buffersToPersist EXCEPT ![t] = n]
  /\ persistent' = [persistent EXCEPT ![t] = SaveToPersistent(n)]
  /\ pc' = [pc EXCEPT ![t] = "queued"]
  /\ submitting' = t
  /\ UNCHANGED <<counterQueue, counterBefore, opened, calls, taskLog>>

\* metadata(), its last statement: the queued task is counted.
MetadataInc(t) ==
  /\ submitting = t
  /\ counterQueue' = g_atomic_int_inc(counterQueue)
  /\ submitting' = NoTask
  /\ UNCHANGED <<counterBefore, pc, buffersToPersist, persistent, baton, opened, calls, taskLog>>

\* Execute, first statement, on a worker thread.
ExecuteDec(t) ==
  /\ pc[t] = "queued"
  /\ counterQueue' = g_atomic_int_dec_and_test(counterQueue)
  /\ pc' = [pc EXCEPT ![t] = "executing"]
  /\ UNCHANGED <<counterBefore, submitting, buffersToPersist, persistent, baton, opened, calls, taskLog>>

\* An Execute without the try block: a VError ends the worker thread.
ExecuteOpenUncaught(t, outcome) ==
  /\ pc[t] = "executing"
  /\ IF outcome.kind = "throw"
     THEN /\ pc' = [pc EXCEPT ![t] = "terminated"]
          /\ opened' = [opened EXCEPT ![t] = Append(opened[t], outcome)]
          /\ UNCHANGED <<baton, cleanup, heap>>
     ELSE /\ baton' = [baton EXCEPT ![BatonOf(t)] = ExecuteBaton(baton[BatonOf(t)], outcome)]
          /\ opened' = [opened EXCEPT ![t] = Append(opened[t], outcome)]
          /\ heap' = [heap EXCEPT ![t] = ExecuteHeap(outcome)]
          /\ cleanup' = [cleanup EXCEPT ![t] = cleanup[t] \o CleanUp]
          /\ pc' = [pc EXCEPT ![t] = "executed"]
  /\ UNCHANGED <<counterQueue, counterBefore, submitting, buffersToPersist,
                 persistent, calls, unpinned>>

\* An Execute that returns from the catch block, before the clean-up.
ExecuteOpenReturnInCatch(t, outcome) ==
  /\ pc[t] = "executing"
  /\ baton' = [baton EXCEPT ![BatonOf(t)] = ExecuteBaton(baton[BatonOf(t)], outcome)]
  /\ opened' = [opened EXCEPT ![t] = Append(opened[t], outcome)]
  /\ heap' = [heap EXCEPT ![t] = ExecuteHeap(outcome)]
  /\ cleanup' = [cleanup EXCEPT
       ![t] = IF outcome.kind = "throw" THEN cleanup[t] ELSE cleanup[t] \o CleanUp]
  /\ pc' = [pc EXCEPT ![t] = "executed"]
  /\ UNCHANGED <<counterQueue, counterBefore, submitting, buffersToPersist,
                 persistent, calls, unpinned>>

\* Execute after the decrement: OpenInput, the reading of the header into
\* the baton, vips_error_clear(), vips_thread_shutdown() and the return.
\* Nothing in it is shared with another thread.
ExecuteOpen(t, outcome) ==
  /\ pc[t] = "executing"
  /\ baton' = [baton EXCEPT ![BatonOf(t)] = ExecuteBaton(baton[BatonOf(t)], outcome)]
  /\ opened' = [opened EXCEPT ![t] = Append(opened[t], outcome)]
  /\ heap' = [heap EXCEPT ![t] = ExecuteHeap(outcome)]
  /\ cleanup' = [cleanup EXCEPT ![t] = cleanup[t] \o CleanUp]
  /\ pc' = [pc EXCEPT ![t] = "executed"]
  /\ UNCHANGED <<counterQueue, counterBefore, submitting, buffersToPersist,
                 persistent, calls, unpinned>>

\* A completion that decrements the counter as well.
WorkCompleteAndDecrement(t) ==
  /\ submitting = NoTask
  /\ pc[t] = "executed"
  /\ calls' = [calls EXCEPT
       ![t] = calls[t] \o HandleOKCallback(baton[BatonOf(t)], persistent[t])]
  /\ unpinned' = [unpinned EXCEPT ![t] = unpinned[t] \o GetFromPersistent(buffersToPersist[t])]
  /\ heap' = [heap EXCEPT ![t] = HandleOKCallbackHeap(heap[t], Argv(baton[BatonOf(t)]).result)]
  /\ persistent' = [persistent EXCEPT ![t] = {}]
  /\ pc' = [pc EXCEPT ![t] = "completed"]
  /\ counterQueue' = g_atomic_int_dec_and_test(counterQueue)
  /\ UNCHANGED <<counterBefore, submitting, buffersToPersist, baton, opened, cleanup>>

\* The completion of the work on the event-loop thread, which is not inside
\* metadata() then: HandleOKCallback, and the destruction of the worker,
\* which resets its persistent handle.
WorkComplete(t) ==
  /\ submitting = NoTask
  /\ pc[t] = "executed"
  /\ calls' = [calls EXCEPT
       ![t] = calls[t] \o HandleOKCallback(baton[BatonOf(t)], persistent[t])]
  /\ unpinned' = [unpinned EXCEPT ![t] = unpinned[t] \o GetFromPersistent(buffersToPersist[t])]
  /\ heap' = [heap EXCEPT ![t] = HandleOKCallbackHeap(heap[t], Argv(baton[BatonOf(t)]).result)]
  /\ persistent' = [persistent EXCEPT ![t] = {}]
  /\ pc' = [pc EXCEPT ![t] = "completed"]
  /\ UNCHANGED <<counterQueue, counterBefore, submitting, buffersToPersist, baton,
                 opened, cleanup>>

\* The caller drops the exif or icc Buffer of a result and it is reclaimed:
\* the FreeCallback given to Nan::NewBuffer runs on its block.
ReclaimBuffer(t, f) ==
  /\ pc[t] = "completed"
  /\ "buffer" \in heap[t][f].owners
  /\ heap' = [heap EXCEPT ![t][f] = FreeCallback(heap[t][f])]
  /\ UNCHANGED <<counterQueue, counterBefore, submitting, pc, buffersToPersist,
                 persistent, baton, opened, calls, cleanup, unpinned>>

Next ==
  \/ \E t \in Tasks, n \in 0..MaxBuffers : MetadataQueue(t, n)
  \/ \E t \in Tasks : MetadataInc(t)
  \/ \E t \in Tasks : ExecuteDec(t)
  \/ \E t \in Tasks, outcome \in OpenOutcomes : ExecuteOpen(t, outcome)
  \/ \E t \in Tasks : WorkComplete(t)
  \/ \E t \in Tasks, f \in BlobFields : ReclaimBuffer(t, f)

Spec == Init /\ [][Next]_vars

\* One outcome of OpenInput of each kind: a VError, an image of UNKNOWN
\* type, and an image of a known type.
FairOutcomes ==
  {o \in OpenOutcomes :
     /\ o.kind = "throw" => o.what = "Input file is missing"
     /\ o.imageType # "PNG"
     /\ o.image.width <= 2 /\ ~o.image.hasAlpha /\ ~o.image.hasProfile}

\* The same steps, the header-open drawn from FairOutcomes.
FairNext ==
  \/ \E t \in Tasks, n \in 0..MaxBuffers : MetadataQueue(t, n)
  \/ \E t \in Tasks : MetadataInc(t)
  \/ \E t \in Tasks : ExecuteDec(t)
  \/ \E t \in Tasks, outcome \in FairOutcomes : ExecuteOpen(t, outcome)
  \/ \E t \in Tasks : WorkComplete(t)

\* metadata() returns, the worker pool runs every queued task, the
\* header-open returns or throws, and the event loop runs the completion of
\* every executed task.
FairSpec ==
  /\ Init /\ [][FairNext]_vars
  /\ \A t \in Tasks : WF_vars(MetadataInc(t))
  /\ \A t \in Tasks : WF_vars(ExecuteDec(t))
  /\ \A t \in Tasks : WF_vars(\E outcome \in FairOutcomes : ExecuteOpen(t, outcome))
  /\ \A t \in Tasks : WF_vars(WorkComplete(t))

TypeOK ==
  /\ counterQueue \in Int
  /\ submitting \in Tasks \cup {NoTask}
  /\ pc \in [Tasks -> {"none", "queued", "executing", "executed", "completed"}]

\* ---------------------------------------------------------------- claims
Completed(t) == pc[t] = "completed"

\* What the callback of a completed task received.
Delivered(t) == calls[t][1]

\* The indexes of the Buffers handed to the worker of task t.
Handed(t) == 0..(buffersToPersist[t] - 1)

\* C1: the callback of a task is called exactly once, after a failed open
\* and after a successful one: not at all before the task has completed,
\* once when it has, never twice.
C1_CallbackExactlyOnce ==
  \A t \in Tasks : Len(calls[t]) = (IF Completed(t) THEN 1 ELSE 0)

C1_Witness ==
  \E t, u \in Tasks :
    /\ Completed(t) /\ opened[t][1].kind = "throw" /\ Len(calls[t]) = 1
    /\ Completed(u) /\ opened[u][1].kind = "ok" /\ Len(calls[u]) = 1

\* C2: in every call of the callback exactly one of error and result is
\* not null.
C2_ErrorXorResult ==
  \A t \in Tasks : \A i \in 1..Len(calls[t]) :
    (calls[t][i].error = Null) # (calls[t][i].result = Null)

C2_Witness ==
  \E t, u \in Tasks :
    /\ Len(calls[t]) = 1 /\ calls[t][1].error # Null /\ calls[t][1].result = Null
    /\ Len(calls[u]) = 1 /\ calls[u][1].error = Null /\ calls[u][1].result # Null
    /\ baton[BatonOf(u)].exifLength > 0

\* C3: when the header-open failed, the callback receives an error with a
\* non-empty message and a null result: no metadata object.
C3_OpenFailureIsError ==
  \A t \in Tasks :
    (Completed(t) /\ opened[t][1].kind = "throw") =>
      /\ Delivered(t).error.type = "Error"
      /\ Delivered(t).error.message # ""
      /\ Delivered(t).result = Null

C3_Witness ==
  \E t \in Tasks :
    /\ Completed(t)
    /\ opened[t][1].kind = "throw"
    /\ Delivered(t).error = Error(opened[t][1].what)

\* C4: when the header-open returned without failure and the type is
\* UNKNOWN, the callback receives an error and no metadata object.
C4_UnknownTypeIsError ==
  \A t \in Tasks :
    (Completed(t) /\ opened[t][1].kind = "ok" /\ opened[t][1].imageType = "UNKNOWN") =>
      /\ Delivered(t).error # Null
      /\ Delivered(t).result = Null

\* C5: once the callback of every submitted task has fired, counterQueue
\* has the value it had before the first submission, whatever the
\* interleaving of metadata(), Execute and the completions was.
C5_CounterRestored ==
  (\A t \in Tasks : pc[t] \in {"none", "completed"}) => counterQueue = counterBefore

C5_Witness ==
  /\ \A t \in Tasks : Completed(t) /\ Len(calls[t]) = 1
  /\ counterQueue = counterBefore

\* C6: the Buffers handed to the worker are all held by its persistent
\* handle while the task is queued, executing or waiting for its
\* completion, and still when its callback runs.
C6_BuffersPinned ==
  \A t \in Tasks :
    /\ pc[t] \in {"queued", "executing", "executed"} => persistent[t] = Handed(t)
    /\ \A i \in 1..Len(calls[t]) : calls[t][i].held = Handed(t)

C6_Witness ==
  \E t, u \in Tasks :
    /\ pc[t] = "executing" /\ persistent[t] # {}
    /\ Completed(u) /\ Delivered(u).held # {}

\* C7: the callback of a task is not called while metadata() is still
\* running for that task.
C7_NeverWithinSubmit ==
  \A t \in Tasks : submitting = t => calls[t] = << >>

C7_Witness ==
  \E t \in Tasks : submitting = t /\ pc[t] = "executed"

\* C8: with a fair worker pool and event loop and a header-open that
\* returns, every queued task is executed and its callback fires.
C8_EventuallyCompleted ==
  \A t \in Tasks : (pc[t] = "queued") ~> (Completed(t) /\ Len(calls[t]) = 1)

C8_Witness ==
  \E t, u \in Tasks : pc[t] = "queued" /\ Completed(u) /\ opened[u][1].kind = "throw"

C10_FieldsPresent ==
  \A t \in Tasks :
    (Completed(t) /\ Delivered(t).result # Null) =>
      LET b == baton[BatonOf(t)]
          fields == DOMAIN Delivered(t).result.props
      IN fields =
           {"format", "width", "height", "space", "channels", "hasProfile", "hasAlpha"}
           \cup (IF b.density > 0 THEN {"density"} ELSE {})
           \cup (IF b.orientation > 0 THEN {"orientation"} ELSE {})
           \cup (IF b.exifLength > 0 THEN {"exif"} ELSE {})
           \cup (IF b.iccLength > 0 THEN {"icc"} ELSE {})

C10_Witness ==
  \E t, u \in Tasks :
    /\ Completed(t) /\ Delivered(t).result # Null
    /\ {"density", "orientation"} \subseteq DOMAIN Delivered(t).result.props
    /\ Completed(u) /\ Delivered(u).result # Null
    /\ "icc" \in DOMAIN Delivered(u).result.props
    /\ DOMAIN Delivered(u).result.props \cap {"density", "orientation", "exif"} = {}

\* The image the header-open returned for task t.
Image(t) == opened[t][1].image

\* The fields of the metadata object task t delivered.
Props(t) == Delivered(t).result.props

\* Task t is completed and its header-open returned an image.
Opened(t) == Completed(t) /\ opened[t][1].kind = "ok"

\* C11: the metadata object of an opened image has no density when the
\* image has no density metadata or its density is <= 0, and otherwise a
\* density equal to the one the engine reports; the density is read only
\* when the engine says there is one.
C11_Density ==
  \A t \in Tasks :
    Opened(t) =>
      /\ Delivered(t).result # Null
      /\ IF Image(t).hasDensity /\ Image(t).density > 0
         THEN "density" \in DOMAIN Props(t) /\ Props(t)["density"] = Image(t).density
         ELSE "density" \notin DOMAIN Props(t)
      /\ ~Image(t).hasDensity => baton[BatonOf(t)].density = 0

C11_Witness ==
  \E t, u \in Tasks :
    /\ Opened(t) /\ Image(t).hasDensity
    /\ "density" \in DOMAIN Props(t) /\ Props(t)["density"] = 72
    /\ Opened(u) /\ ~Image(u).hasDensity /\ Image(u).density = 72
    /\ "density" \notin DOMAIN Props(u)

\* The length Execute recorded in the baton for a blob.
LengthOf(b, f) == IF f = "exif" THEN b.exifLength ELSE b.iccLength

\* C12 as claimed: the metadata object has an exif (icc) field iff the
\* image carries the block, a block of length 0 included, and the field has
\* the block's length and bytes.
C12_BlobFieldIffBlock ==
  \A t \in Tasks : \A f \in BlobFields :
    Opened(t) =>
      /\ f \in DOMAIN Props(t) <=> Image(t)[f].present
      /\ f \in DOMAIN Props(t) => Props(t)[f].data = Image(t)[f].data

\* C12 as amended: the metadata object has an exif (icc) field iff the
\* image carries the block and its length is > 0; the field then has the
\* block's length and bytes. An absent block and a block of length 0 leave
\* the length at 0 with nothing allocated, and give no field.
C12_BlobFieldIffNonEmptyBlock ==
  \A t \in Tasks : \A f \in BlobFields :
    Opened(t) =>
      /\ f \in DOMAIN Props(t) <=> (Image(t)[f].present /\ Len(Image(t)[f].data) > 0)
      /\ f \in DOMAIN Props(t) =>
           /\ Props(t)[f].data = Image(t)[f].data
           /\ Len(Props(t)[f].data) = Len(Image(t)[f].data)
      /\ f \notin DOMAIN Props(t) =>
           /\ LengthOf(baton[BatonOf(t)], f) = 0
           /\ ~heap[t][f].allocated

C12_Witness ==
  \E t, u \in Tasks :
    /\ Opened(t) /\ Image(t).exif.data = <<7, 8>>
    /\ "exif" \in DOMAIN Props(t) /\ Props(t)["exif"].data = <<7, 8>>
    /\ "icc" \notin DOMAIN Props(t)
    /\ Opened(u) /\ Image(u).exif.present /\ Image(u).exif.data = << >>
    /\ "exif" \notin DOMAIN Props(u)

\* C13: the counter is incremented before the task is queued, so it never
\* drops below its value before the first submission, and its offset from
\* that value is the number of tasks queued and not yet executing.
C13_CountsQueuedTasks ==
  /\ counterQueue >= counterBefore
  /\ counterQueue - counterBefore = Cardinality({t \in Tasks : pc[t] = "queued"})

\* The baton holds a header: Execute wrote format, width and height.
HeaderWritten(b) == b.format # ""

\* C14: at the end of Execute exactly one holds: the baton's error is not
\* empty, or the header was written into it; after a failed open nothing but
\* the error is written and no blob is allocated.
C14_ErrorXorHeader ==
  \A t \in Tasks :
    pc[t] \in {"executed", "completed"} =>
      /\ (baton[BatonOf(t)].err # "") # HeaderWritten(baton[BatonOf(t)])
      /\ opened[t][1].kind = "throw" =>
           /\ baton[BatonOf(t)] = [NewBaton EXCEPT !.err = opened[t][1].what]
           /\ \A f \in BlobFields : ~heap[t][f].allocated

\* Execute has returned for task t.
Executed(t) == pc[t] \in {"executed", "completed"}

C17_LifecycleOrder ==
  \A t \in Tasks :
    /\ pc[t] \in {"executing", "executed", "completed"} => submitting # t
    /\ Len(opened[t]) <= 1
    /\ \A i \in 1..Len(calls[t]) :
         ~calls[t][i].batonDeleted /\ calls[t][i].held = Handed(t)

\* The tasks metadata() has counted, and those Execute has discounted.
Incremented == {t \in Tasks : pc[t] # "none" /\ submitting # t}
Decremented == {t \in Tasks : pc[t] \in {"executing", "executed", "completed"}}

\* C18: the counter is decremented once per task, when its Execute starts
\* and before its header-open, and by nothing else: it is the starting value
\* plus the tasks counted minus the tasks that started executing, whether
\* they failed, wait for their callback or are completed.
C18_DecrementAtStart ==
  /\ counterQueue = counterBefore + Cardinality(Incremented) - Cardinality(Decremented)
  /\ \A t \in Tasks : opened[t] # << >> => t \in Decremented

C18_Witness ==
  \E t, u \in Tasks :
    /\ pc[t] = "executed" /\ opened[t][1].kind = "throw"
    /\ pc[u] = "queued" /\ submitting = NoTask
    /\ counterQueue = counterBefore + 1

C20_OneOwner ==
  \A t \in Tasks : \A f \in BlobFields :
    LET block == heap[t][f]
    IN /\ block.frees <= 1
       /\ ~block.allocated => block = NoBlock
       /\ (block.allocated /\ block.frees = 0) =>
            block.owners = (IF Completed(t) THEN {"buffer"} ELSE {"baton"})
       /\ block.frees = 1 => block.owners = {}
       /\ block.allocated =>
            /\ opened[t][1].kind = "ok"
            /\ Len(Image(t)[f].data) > 0

C20_Witness ==
  \E t, u \in Tasks :
    /\ heap[t]["exif"].frees = 1
    /\ heap[u]["icc"].owners = {"buffer"}

====
